---- MODULE Spec2Model ----
(***************************************************************************)
(* The claims dashboard script (dashboard.py) as a state machine: one run   *)
(* of the script over one uploaded file.  A run loads the file, validates   *)
(* the required columns, cleans and derives the per-record totals, reads    *)
(* the two sidebar filters, builds the two aggregate tables, displays the   *)
(* tables and the charts, and exports the report.                           *)
(*                                                                          *)
(* Amounts are exact decimals counted in thousandths of the currency unit   *)
(* (1000 = 1.00), so that rounding to 2 decimals is a real operation.       *)
(* A column name is the sequence of its characters' tokens: the token " "   *)
(* is one blank, any other token is the name's non-blank body.              *)
(***************************************************************************)
EXTENDS Integers, Sequences, FiniteSets, TLC

VARIABLES
    uploaded_file,       \* the upload: its header line and its raw rows
    pc,                  \* position of the run in the script
    df,                  \* the working DataFrame: column labels and rows
    missing_cols,        \* line 22
    selected_year,       \* line 57, the multiselect's value
    selected_insurance,  \* line 61
    filtered_df,         \* line 68
    grouped_paid,        \* line 75-76, the monthly paid matrix
    summary_table,       \* line 79-84
    shown,               \* the elements the page shows, in order
    output_file          \* Insurance_Claims_Report.xlsx on disk

vars == <<uploaded_file, pc, df, missing_cols, selected_year, selected_insurance,
          filtered_df, grouped_paid, summary_table, shown, output_file>>

(***************************************************************************)
(* Bounds of the model.                                                     *)
(***************************************************************************)
MaxRows == 2

(***************************************************************************)
(* Column names of the script.                                              *)
(***************************************************************************)
required_cols == <<"Remittance_Date", "Payer_Name", "Paid_Amount">>

amount_cols == <<"Paid_Amount", "Resubmission_Paid_Amount_1", "Resubmission_Paid_Amount2",
                 "Submitted_Amount", "Resubmitted_Amount_1", "Resubmitted_Amount2",
                 "Denied_Amount", "Resubmission_Denied_Amount_Remittance_1",
                 "Resubmission_Denied_Amount_Remittance_2">>

month_order == <<"Jan", "Feb", "Mar", "Apr", "May", "Jun",
                 "Jul", "Aug", "Sep", "Oct", "Nov", "Dec">>

Range(s) == {s[i] : i \in DOMAIN s}

\* A column label: the name as the file writes it.
Label(lead, name, trail) ==
    (IF lead THEN <<" ">> ELSE <<>>) \o <<name>> \o (IF trail THEN <<" ">> ELSE <<>>)

Exact(name) == Label(FALSE, name, FALSE)

(***************************************************************************)
(* str.strip() of one label: the leading and trailing blanks removed.       *)
(***************************************************************************)
RECURSIVE LStrip(_)
LStrip(s) == IF s # <<>> /\ Head(s) = " " THEN LStrip(Tail(s)) ELSE s

RECURSIVE RStrip(_)
RStrip(s) ==
    IF s # <<>> /\ s[Len(s)] = " " THEN RStrip(SubSeq(s, 1, Len(s) - 1)) ELSE s

Strip(s) == RStrip(LStrip(s))

(***************************************************************************)
(* pd.to_numeric(errors='coerce') then fillna(0) of one cell.  A cell is    *)
(* a number, or text that is no number, or blank.                           *)
(***************************************************************************)
Num(v) == [t |-> "num", v |-> v]
Text == [t |-> "text", v |-> 0]
Blank == [t |-> "blank", v |-> 0]

ToNumeric(cell) == IF cell.t = "num" THEN cell.v ELSE 0

(***************************************************************************)
(* round(x, 2) of an amount in thousandths: to the nearest hundredth, a     *)
(* half to the even hundredth.  The result is again in thousandths.         *)
(***************************************************************************)
Round2(x) ==
    LET q == x \div 10
        r == x % 10
    IN  IF r < 5 THEN 10 * q
        ELSE IF r > 5 THEN 10 * (q + 1)
        ELSE IF q % 2 = 0 THEN 10 * q ELSE 10 * (q + 1)

(***************************************************************************)
(* The four derived totals of one coerced row (lines 47-50).                *)
(***************************************************************************)
TotalSubmitted(r) ==
    Round2(r["Submitted_Amount"] + r["Resubmitted_Amount_1"] + r["Resubmitted_Amount2"])

TotalPaid(r) ==
    Round2(r["Paid_Amount"] + r["Resubmission_Paid_Amount_1"] + r["Resubmission_Paid_Amount2"])

TotalDenied(r) ==
    Round2((r["Denied_Amount"] - r["Resubmitted_Amount_1"])
           + (r["Resubmission_Denied_Amount_Remittance_1"] - r["Resubmitted_Amount2"])
           + r["Resubmission_Denied_Amount_Remittance_2"])

PendingFromTotalSubmitted(r, paid, denied) ==
    Round2(TotalSubmitted(r) - (paid + denied))

TotalPending(r, paid, denied) ==
    Round2(r["Submitted_Amount"] - (paid + denied))

(***************************************************************************)
(* pd.to_datetime(errors='coerce') of one cell.  A raw date is the year,    *)
(* month and day the cell spells; a cell that spells no calendar date       *)
(* becomes NaT.                                                             *)
(***************************************************************************)
RawDate(y, m, d) == [y |-> y, m |-> m, d |-> d]

NaT == [valid |-> FALSE, y |-> 0, m |-> 0]

IsLeap(y) == (y % 4 = 0 /\ y % 100 # 0) \/ y % 400 = 0

DaysIn(y, m) ==
    IF m = 2 THEN (IF IsLeap(y) THEN 29 ELSE 28)
    ELSE IF m \in {4, 6, 9, 11} THEN 30 ELSE 31

ToDatetime(raw) ==
    IF raw.m \in 1..12 /\ raw.d >= 1 /\ raw.d <= DaysIn(raw.y, raw.m)
    THEN [valid |-> TRUE, y |-> raw.y, m |-> raw.m]
    ELSE NaT

\* .dt.strftime('%b') and .dt.quarter; of NaT both are missing values.
MonthAbbr(date) == IF date.valid THEN month_order[date.m] ELSE "NaN"

QuarterOf(date) == IF date.valid THEN ((date.m - 1) \div 3) + 1 ELSE 0

(***************************************************************************)
(* The uploaded files of the model.                                         *)
(*                                                                          *)
(* A raw row gives a cell for each column the script reads; the file's      *)
(* header decides which of these columns exist and under which label.       *)
(***************************************************************************)
Amounts(paid, rpaid1, rpaid2, sub, resub1, resub2, den, rden1, rden2) ==
    [c \in Range(amount_cols) |->
        CASE c = "Paid_Amount" -> paid
          [] c = "Resubmission_Paid_Amount_1" -> rpaid1
          [] c = "Resubmission_Paid_Amount2" -> rpaid2
          [] c = "Submitted_Amount" -> sub
          [] c = "Resubmitted_Amount_1" -> resub1
          [] c = "Resubmitted_Amount2" -> resub2
          [] c = "Denied_Amount" -> den
          [] c = "Resubmission_Denied_Amount_Remittance_1" -> rden1
          [] OTHER -> rden2]

RawRow(date, payer, amounts) ==
    ("Remittance_Date" :> date) @@ ("Payer_Name" :> payer) @@ amounts

\* Two calendar dates of one year, one of another year, and a cell that
\* spells no date (the 30th of February).
RawDates == <<RawDate(2021, 1, 15), RawDate(2021, 3, 15),
              RawDate(2022, 3, 1), RawDate(2021, 2, 30)>>

PayerNames == <<"Acme", "Zenith">>

\* A plain claim (submitted 100.00, paid 80.00, denied 20.00), and a claim
\* with resubmissions, a paid cell that is no number, a blank cell and
\* amounts of half a hundredth.
AmountProfiles ==
    <<Amounts(Num(80000), Num(0), Num(0), Num(100000), Num(0), Num(0),
              Num(20000), Num(0), Num(0)),
      Amounts(Text, Num(30005), Num(15), Num(100000), Num(40000), Num(5),
              Num(40000), Blank, Num(10000))>>

NumRowKinds == Len(RawDates) * Len(PayerNames) * Len(AmountProfiles)

RowOfKind(k) ==
    LET a == k % Len(AmountProfiles)
        p == (k \div Len(AmountProfiles)) % Len(PayerNames)
        d == k \div (Len(AmountProfiles) * Len(PayerNames))
    IN  RawRow(RawDates[d + 1], PayerNames[p + 1], AmountProfiles[a + 1])

\* The files of n rows, up to the order of the rows.
RowKindSeqs(n) ==
    {s \in [1..n -> 0..(NumRowKinds - 1)] : \A i \in 1..(n - 1) : s[i] <= s[i + 1]}

RawFiles ==
    UNION {{[i \in 1..n |-> RowOfKind(s[i])] : s \in RowKindSeqs(n)} : n \in 0..MaxRows}

\* A header with the given labels for the three required columns (<<>> for
\* an absent column); the other amount columns are present, the one named
\* `absent` excepted, and the one named `padded` has a leading blank.
Header(date, payer, paid, absent, padded) ==
    ({date, payer, paid} \ {<<>>})
    \cup {IF c = padded THEN Label(TRUE, c, FALSE) ELSE Exact(c) :
            c \in Range(amount_cols) \ {"Paid_Amount", absent}}

Headers ==
    { Header(Exact("Remittance_Date"), Exact("Payer_Name"), Exact("Paid_Amount"), "", ""),
      Header(Exact("Remittance_Date"), Exact("Payer_Name"), Exact("Paid_Amount"),
             "", "Denied_Amount"),
      Header(Exact("Remittance_Date"), Exact("Payer_Name"), Exact("Paid_Amount"),
             "Resubmitted_Amount_1", ""),
      Header(Label(TRUE, "Remittance_Date", FALSE), Exact("Payer_Name"),
             Exact("Paid_Amount"), "", ""),
      Header(Label(TRUE, "Remittance_Date", TRUE), Label(FALSE, "Payer_Name", TRUE),
             Label(TRUE, "Paid_Amount", FALSE), "", ""),
      Header(Exact("Remittance_Date"), <<>>, Exact("Paid_Amount"), "", ""),
      Header(<<>>, Exact("Payer_Name"), <<>>, "", ""),
      Header(Exact("Remittance_Date"), <<>>, Label(FALSE, "Paid_Amount", TRUE), "", "") }

(***************************************************************************)
(* What the page shows: a sequence of elements.                             *)
(***************************************************************************)
Element(kind, text, cols) == [kind |-> kind, text |-> text, cols |-> cols]

\* line 24
MissingMessage(cols) == Element("error", "Missing required columns", cols)

\* line 222: the message carries the text of the exception
ErrorMessage(e) == Element("error", e, <<>>)

Table(name) == Element("dataframe", name, <<>>)

Chart(name) == Element("plotly_chart", name, <<>>)

NoDataWarning == Element("warning", "No data available for the selected filters", <<>>)

DownloadButton == Element("download_button", "Insurance_Claims_Report.xlsx", <<>>)

NoFrame == [columns |-> {}, rows |-> <<>>]

NoTable == [columns |-> <<>>, rows |-> <<>>]

NoFile == [exists |-> FALSE, sheets |-> <<>>]

Init ==
    /\ \E h \in Headers, rows \in RawFiles :
            uploaded_file = [columns |-> h, rows |-> rows]
    /\ pc = "load"
    /\ df = NoFrame
    /\ missing_cols = <<>>
    /\ selected_year = {}
    /\ selected_insurance = {}
    /\ filtered_df = NoFrame
    /\ grouped_paid = NoTable
    /\ summary_table = NoTable
    /\ shown = <<>>
    /\ output_file = NoFile

(***************************************************************************)
(* except Exception as e (lines 221-222): the run shows the message and     *)
(* ends.  Nothing is removed from the page and the export file is left as   *)
(* it is.                                                                   *)
(***************************************************************************)
RaiseSilently(e) ==
    /\ UNCHANGED shown
    /\ pc' = "error"

Raise(e) ==
    /\ shown' = Append(shown, ErrorMessage(e))
    /\ pc' = "error"

(***************************************************************************)
(* Lines 15-18: read_csv / read_excel.  The reader raises on a file it      *)
(* cannot parse.  The DataFrame keeps the labels as written and gives the   *)
(* rows the index 0, 1, ...                                                  *)
(***************************************************************************)
ReadFile(file) ==
    [columns |-> file.columns,
     rows |-> [i \in 1..Len(file.rows) |-> file.rows[i] @@ ("index" :> (i - 1))]]

Load ==
    /\ pc = "load"
    /\ \E parses \in BOOLEAN :
          IF parses
          THEN /\ df' = ReadFile(uploaded_file)
               /\ pc' = "validate"
               /\ UNCHANGED shown
          ELSE /\ Raise("ParserError")
               /\ UNCHANGED df
    /\ UNCHANGED <<uploaded_file, missing_cols, selected_year, selected_insurance,
                   filtered_df, grouped_paid, summary_table, output_file>>

(***************************************************************************)
(* Lines 20-25: the required columns are looked up among the labels as      *)
(* the file wrote them.  st.stop() ends the run by an exception that is no  *)
(* Exception, so the handler of line 221 does not see it.                   *)
(***************************************************************************)
MissingColsFirstOnly(columns) ==
    SelectSeq(SubSeq(required_cols, 1, 1), LAMBDA col : Exact(col) \notin columns)

MissingCols(columns) ==
    SelectSeq(required_cols, LAMBDA col : Exact(col) \notin columns)

Validate ==
    /\ pc = "validate"
    /\ missing_cols' = MissingCols(df.columns)
    /\ IF missing_cols' # <<>>
       THEN /\ shown' = Append(shown, MissingMessage(missing_cols'))
            /\ pc' = "stopped"
       ELSE /\ pc' = "clean"
            /\ UNCHANGED shown
    /\ UNCHANGED <<uploaded_file, df, selected_year, selected_insurance,
                   filtered_df, grouped_paid, summary_table, output_file>>

(***************************************************************************)
(* Lines 27-39: strip the labels, coerce the nine amount columns, parse     *)
(* the date and drop the rows whose date is NaT.  Selecting a label the     *)
(* DataFrame does not have raises KeyError.                                 *)
(***************************************************************************)
StripColumns(columns) == {Strip(c) : c \in columns}

HasColumn(columns, name) == Exact(name) \in columns

CoerceRow(r) ==
    [f \in DOMAIN r |-> IF f \in Range(amount_cols) THEN ToNumeric(r[f]) ELSE r[f]]

ParseDateRow(r) == [r EXCEPT !["Remittance_Date"] = ToDatetime(@)]

DropNaKeep(rows) == rows

DropNa(rows) == SelectSeq(rows, LAMBDA r : r["Remittance_Date"].valid)

CoerceRows(rows) == [i \in DOMAIN rows |-> CoerceRow(rows[i])]

ParseDateRows(rows) == [i \in DOMAIN rows |-> ParseDateRow(rows[i])]

CleanRows(rows) == DropNa(ParseDateRows(CoerceRows(rows)))

Clean ==
    /\ pc = "clean"
    /\ LET columns == StripColumns(df.columns)
       IN  IF \E c \in Range(amount_cols) : ~HasColumn(columns, c)
           THEN /\ Raise("KeyError: amount columns not in index")
                /\ df' = [df EXCEPT !.columns = columns]
           ELSE IF ~HasColumn(columns, "Remittance_Date")
           THEN /\ Raise("KeyError: Remittance_Date")
                /\ df' = [columns |-> columns, rows |-> CoerceRows(df.rows)]
           ELSE /\ df' = [columns |-> columns, rows |-> CleanRows(df.rows)]
                /\ pc' = "derive"
                /\ UNCHANGED shown
    /\ UNCHANGED <<uploaded_file, missing_cols, selected_year, selected_insurance,
                   filtered_df, grouped_paid, summary_table, output_file>>

(***************************************************************************)
(* Lines 41-50: year, month, quarter and the four totals of every row.      *)
(***************************************************************************)
DeriveRow(r) ==
    LET paid == TotalPaid(r)
        denied == TotalDenied(r)
    IN  r @@ ("Remittance_Year" :> r["Remittance_Date"].y)
          @@ ("Remittance_Month" :> MonthAbbr(r["Remittance_Date"]))
          @@ ("Quarter" :> QuarterOf(r["Remittance_Date"]))
          @@ ("Total Submitted Amount" :> TotalSubmitted(r))
          @@ ("Total Paid Amount" :> paid)
          @@ ("Total Denied Amount" :> denied)
          @@ ("Total Pending Amount" :> TotalPending(r, paid, denied))

DerivedColumns ==
    {Exact(c) : c \in {"Remittance_Year", "Remittance_Month", "Quarter",
                       "Total Submitted Amount", "Total Paid Amount",
                       "Total Denied Amount", "Total Pending Amount"}}

Derive ==
    /\ pc = "derive"
    /\ df' = [columns |-> df.columns \cup DerivedColumns,
              rows |-> [i \in DOMAIN df.rows |-> DeriveRow(df.rows[i])]]
    /\ pc' = "filters"
    /\ UNCHANGED <<uploaded_file, missing_cols, selected_year, selected_insurance,
                   filtered_df, grouped_paid, summary_table, shown, output_file>>

(***************************************************************************)
(* Lines 52-71: the two multiselects and the filtered DataFrame.            *)
(*                                                                          *)
(* An option of the year multiselect is the string "ALL" or a year; the     *)
(* two are told apart by a tag.  The payer options are strings.             *)
(***************************************************************************)
AllYears == [all |-> TRUE, y |-> 0]

YearOption(y) == [all |-> FALSE, y |-> y]

UniqueYears(rows) == {rows[i]["Remittance_Year"] : i \in DOMAIN rows}

UniquePayers(rows) == {rows[i]["Payer_Name"] : i \in DOMAIN rows}

\* line 56
year_options(rows) == {AllYears} \cup {YearOption(y) : y \in UniqueYears(rows)}

\* line 60
insurance_options(rows) == {"ALL"} \cup UniquePayers(rows)

EffectiveYearExplicitOnly(selected, rows) ==
    {o.y : o \in {x \in selected : x # AllYears}}

\* line 64
EffectiveYear(selected, rows) ==
    IF AllYears \in selected
    THEN UniqueYears(rows)
    ELSE {o.y : o \in {x \in selected : x # AllYears}}

\* line 65
EffectiveInsurance(selected, rows) ==
    IF "ALL" \in selected
    THEN UniquePayers(rows)
    ELSE {i \in selected : i # "ALL"}

\* lines 68-71
FilterRows(rows, years, payers) ==
    SelectSeq(rows, LAMBDA r : r["Remittance_Year"] \in years /\ r["Payer_Name"] \in payers)

Filters ==
    /\ pc = "filters"
    /\ IF ~HasColumn(df.columns, "Payer_Name")
       THEN /\ Raise("KeyError: Payer_Name")
            /\ UNCHANGED <<selected_year, selected_insurance, filtered_df>>
       ELSE /\ \E ys \in SUBSET year_options(df.rows),
                  is \in SUBSET insurance_options(df.rows) :
                    /\ selected_year' = ys
                    /\ selected_insurance' = is
                    /\ filtered_df' =
                          [columns |-> df.columns,
                           rows |-> FilterRows(df.rows, EffectiveYear(ys, df.rows),
                                               EffectiveInsurance(is, df.rows))]
            /\ shown' = shown \o <<Element("sidebar", "Filters", <<>>),
                                   Element("sidebar", "Select Year(s)", <<>>),
                                   Element("sidebar", "Select Insurance(s)", <<>>)>>
            /\ pc' = "aggregate"
    /\ UNCHANGED <<uploaded_file, df, missing_cols, grouped_paid, summary_table,
                   output_file>>

(***************************************************************************)
(* Lines 73-84: the two aggregate tables.                                   *)
(***************************************************************************)
RECURSIVE SumColumn(_, _)
SumColumn(rows, column) ==
    IF rows = <<>> THEN 0 ELSE Head(rows)[column] + SumColumn(Tail(rows), column)

\* groupby(keys)[column].sum(): the observed key tuples and the sum of each.
GroupSum(rows, keys, column) ==
    LET KeyOf(r) == [j \in DOMAIN keys |-> r[keys[j]]]
        observed == {KeyOf(rows[i]) : i \in DOMAIN rows}
    IN  [k \in observed |-> SumColumn(SelectSeq(rows, LAMBDA r : KeyOf(r) = k), column)]

\* unstack(fill_value=0) of a series keyed by (year, payer, month): one row
\* for each observed (year, payer), one column for each observed month.
Unstack(series) ==
    LET index == {<<k[1], k[2]>> : k \in DOMAIN series}
        months == {k[3] : k \in DOMAIN series}
    IN  [index |-> index,
         columns |-> months,
         cell |-> [k \in index |-> [m \in months |->
                      IF <<k[1], k[2], m>> \in DOMAIN series
                      THEN series[<<k[1], k[2], m>>] ELSE 0]]]

ReindexObservedOnly(frame, columns) ==
    [index |-> frame.index,
     columns |-> SelectSeq(columns, LAMBDA m : m \in frame.columns),
     cell |-> [k \in frame.index |-> [m \in Range(columns) \cap frame.columns |->
                  frame.cell[k][m]]]]

\* reindex(columns=..., fill_value=0): exactly the given columns, in the
\* given order; a column the frame does not have is filled with 0.
Reindex(frame, columns) ==
    [index |-> frame.index,
     columns |-> columns,
     cell |-> [k \in frame.index |-> [m \in Range(columns) |->
                  IF m \in frame.columns THEN frame.cell[k][m] ELSE 0]]]

\* The order of the group keys: by year, then by payer name.
PayerRank(p) == CHOOSE i \in DOMAIN PayerNames : PayerNames[i] = p

KeyBefore(a, b) ==
    a[1] < b[1] \/ (a[1] = b[1] /\ PayerRank(a[2]) <= PayerRank(b[2]))

RECURSIVE SortKeys(_)
SortKeys(keys) ==
    IF keys = {} THEN <<>>
    ELSE LET first == CHOOSE a \in keys : \A b \in keys : KeyBefore(a, b)
         IN  <<first>> \o SortKeys(keys \ {first})

\* lines 75-76
GroupedPaid(rows) ==
    LET series == GroupSum(rows, <<"Remittance_Year", "Payer_Name", "Remittance_Month">>,
                           "Total Paid Amount")
        frame == Reindex(Unstack(series), month_order)
        order == SortKeys(frame.index)
    IN  [columns |-> <<"Remittance_Year", "Payer_Name">> \o frame.columns,
         rows |-> [i \in DOMAIN order |->
                     ("Remittance_Year" :> order[i][1]) @@ ("Payer_Name" :> order[i][2])
                     @@ frame.cell[order[i]]]]

SummaryPaidFromSubmitted(rows) ==
    LET keys == <<"Remittance_Year", "Payer_Name">>
        order == SortKeys(DOMAIN GroupSum(rows, keys, "Total Paid Amount"))
    IN  [columns |-> keys \o <<"Total_Submitted", "Total_Paid", "Total_Denied",
                               "Total_Pending">>,
         rows |-> [i \in DOMAIN order |->
                     [Remittance_Year |-> order[i][1],
                      Payer_Name |-> order[i][2],
                      Total_Submitted |-> GroupSum(rows, keys, "Total Submitted Amount")[order[i]],
                      Total_Paid |-> GroupSum(rows, keys, "Total Submitted Amount")[order[i]],
                      Total_Denied |-> GroupSum(rows, keys, "Total Denied Amount")[order[i]],
                      Total_Pending |-> GroupSum(rows, keys, "Total Pending Amount")[order[i]]]]]

\* lines 79-84
SummaryTable(rows) ==
    LET keys == <<"Remittance_Year", "Payer_Name">>
        order == SortKeys(DOMAIN GroupSum(rows, keys, "Total Paid Amount"))
    IN  [columns |-> keys \o <<"Total_Submitted", "Total_Paid", "Total_Denied",
                               "Total_Pending">>,
         rows |-> [i \in DOMAIN order |->
                     [Remittance_Year |-> order[i][1],
                      Payer_Name |-> order[i][2],
                      Total_Submitted |-> GroupSum(rows, keys, "Total Submitted Amount")[order[i]],
                      Total_Paid |-> GroupSum(rows, keys, "Total Paid Amount")[order[i]],
                      Total_Denied |-> GroupSum(rows, keys, "Total Denied Amount")[order[i]],
                      Total_Pending |-> GroupSum(rows, keys, "Total Pending Amount")[order[i]]]]]

Aggregate ==
    /\ pc = "aggregate"
    /\ grouped_paid' = GroupedPaid(filtered_df.rows)
    /\ summary_table' = SummaryTable(filtered_df.rows)
    /\ pc' = "tables"
    /\ UNCHANGED <<uploaded_file, df, missing_cols, selected_year, selected_insurance,
                   filtered_df, shown, output_file>>

(***************************************************************************)
(* Lines 86-90: the two tables are put on the page.                         *)
(***************************************************************************)
ShowTables ==
    /\ pc = "tables"
    /\ shown' = shown \o <<Element("subheader", "Paid Amount Per Month (Filtered)", <<>>),
                           Table("grouped_paid"),
                           Element("subheader", "Summary Table", <<>>),
                           Table("summary_table")>>
    /\ pc' = "charts"
    /\ UNCHANGED <<uploaded_file, df, missing_cols, selected_year, selected_insurance,
                   filtered_df, grouped_paid, summary_table, output_file>>

(***************************************************************************)
(* Lines 92-206: the warning, or the twelve charts under their four         *)
(* headings.  Building or plotting a chart can raise; the elements before   *)
(* it are on the page by then.                                              *)
(***************************************************************************)
ChartSection ==
    <<Element("markdown", "Trends and Comparisons", <<>>),
      Chart("Yearly Paid Amount by Quarter"),
      Chart("Paid Amount by Insurance Provider"),
      Chart("Distribution of Paid Amounts"),
      Chart("Insurance Performance: Submitted vs. Paid Amounts"),
      Element("markdown", "Time-Series and Trends", <<>>),
      Chart("Monthly Paid Amount Trends"),
      Chart("Cumulative Paid Amounts by Insurance Provider"),
      Element("markdown", "Proportions and Distributions", <<>>),
      Chart("Paid vs. Denied Amounts by Insurance Provider"),
      Chart("Paid Amount Distribution by Insurance Provider"),
      Element("markdown", "Advanced Insights", <<>>),
      Chart("Heatmap of Monthly Paid Amounts by Year and Insurance"),
      Chart("Paid vs. Denied Amounts by Insurance"),
      Chart("Submitted, Paid, Denied, and Pending Amounts by Year"),
      Chart("Distribution of Paid Amounts by Quarter")>>

ChartsWithoutEmptyCheck ==
    /\ pc = "charts"
    /\ shown' = shown \o <<Element("subheader", "Data Visualizations (Filtered Data)", <<>>)>>
                       \o ChartSection
    /\ pc' = "export"
    /\ UNCHANGED <<uploaded_file, df, missing_cols, selected_year, selected_insurance,
                   filtered_df, grouped_paid, summary_table, output_file>>

Charts ==
    /\ pc = "charts"
    /\ LET heading == Element("subheader", "Data Visualizations (Filtered Data)", <<>>)
       IN  IF filtered_df.rows = <<>>
           THEN /\ shown' = shown \o <<heading, NoDataWarning>>
                /\ pc' = "export"
           ELSE \E n \in 1..(Len(ChartSection) + 1) :
                   IF n <= Len(ChartSection)
                   THEN /\ ChartSection[n].kind = "plotly_chart"
                        /\ shown' = (shown \o <<heading>> \o SubSeq(ChartSection, 1, n - 1))
                                    \o <<ErrorMessage("ValueError: chart")>>
                        /\ pc' = "error"
                   ELSE /\ shown' = shown \o <<heading>> \o ChartSection
                        /\ pc' = "export"
    /\ UNCHANGED <<uploaded_file, df, missing_cols, selected_year, selected_insurance,
                   filtered_df, grouped_paid, summary_table, output_file>>

(***************************************************************************)
(* Lines 208-213: the workbook.  Opening the writer creates the file; the   *)
(* three sheets are written in order; leaving the with block saves what     *)
(* was written, also when a sheet raised.                                   *)
(***************************************************************************)
Sheets ==
    <<[name |-> "Paid Claims Per Month", rows |-> grouped_paid.rows],
      [name |-> "Summary", rows |-> summary_table.rows],
      [name |-> "All Claims Raw (Filtered)", rows |-> filtered_df.rows]>>

ExportWrite ==
    /\ pc = "export"
    /\ \E opened \in BOOLEAN, n \in 0..Len(Sheets) :
          IF ~opened
          THEN /\ n = 0
               /\ Raise("PermissionError")
               /\ UNCHANGED output_file
          ELSE /\ output_file' = [exists |-> TRUE, sheets |-> SubSeq(Sheets, 1, n)]
               /\ IF n < Len(Sheets)
                  THEN Raise("ValueError: to_excel")
                  ELSE /\ pc' = "download"
                       /\ UNCHANGED shown
    /\ UNCHANGED <<uploaded_file, df, missing_cols, selected_year, selected_insurance,
                   filtered_df, grouped_paid, summary_table>>

(***************************************************************************)
(* Lines 215-217: the file is opened and handed to the download button.     *)
(***************************************************************************)
Download ==
    /\ pc = "download"
    /\ \E handed \in BOOLEAN :
          IF handed
          THEN /\ shown' = Append(shown, DownloadButton)
               /\ pc' = "cleanup"
          ELSE Raise("StreamlitAPIException")
    /\ UNCHANGED <<uploaded_file, df, missing_cols, selected_year, selected_insurance,
                   filtered_df, grouped_paid, summary_table, output_file>>

(***************************************************************************)
(* Lines 218-219: os.remove(output_file).                                   *)
(***************************************************************************)
Remove(file) == NoFile

Cleanup ==
    /\ pc = "cleanup"
    /\ output_file' = Remove(output_file)
    /\ pc' = "done"
    /\ UNCHANGED <<uploaded_file, df, missing_cols, selected_year, selected_insurance,
                   filtered_df, grouped_paid, summary_table, shown>>

Next ==
    \/ Load
    \/ Validate
    \/ Clean
    \/ Derive
    \/ Filters
    \/ Aggregate
    \/ ShowTables
    \/ Charts
    \/ ExportWrite
    \/ Download
    \/ Cleanup

Spec == Init /\ [][Next]_vars

(***************************************************************************)
(* The derivation of the totals on its own: one record with its nine        *)
(* amount cells drawn from small sets, taken through loading, validation,   *)
(* cleaning and derivation.                                                 *)
(***************************************************************************)
TotalsAmounts ==
    {Amounts(paid, rpaid1, rpaid2, sub, resub1, resub2, den, rden1, rden2) :
        paid \in {Num(0), Num(80000), Text},
        rpaid1 \in {Num(0), Num(10500)},
        rpaid2 \in {Num(0), Blank},
        sub \in {Num(0), Num(100000), Num(100005)},
        resub1 \in {Num(0), Num(25000), Num(25005)},
        resub2 \in {Num(0), Num(10000)},
        den \in {Num(0), Num(20000)},
        rden1 \in {Num(0), Num(30000)},
        rden2 \in {Num(0), Num(4500)}}

InitTotals ==
    /\ \E amounts \in TotalsAmounts :
            uploaded_file =
                [columns |-> Header(Exact("Remittance_Date"), Exact("Payer_Name"),
                                    Exact("Paid_Amount"), "", ""),
                 rows |-> <<RawRow(RawDates[2], PayerNames[1], amounts)>>]
    /\ pc = "load"
    /\ df = NoFrame
    /\ missing_cols = <<>>
    /\ selected_year = {}
    /\ selected_insurance = {}
    /\ filtered_df = NoFrame
    /\ grouped_paid = NoTable
    /\ summary_table = NoTable
    /\ shown = <<>>
    /\ output_file = NoFile

NextTotals ==
    \/ Load
    \/ Validate
    \/ Clean
    \/ Derive

SpecTotals == InitTotals /\ [][NextTotals]_vars

(***************************************************************************)
(* Properties.                                                              *)
(***************************************************************************)
RECURSIVE Total(_)
Total(s) == IF s = <<>> THEN 0 ELSE Head(s) + Total(Tail(s))

Derived == pc = "filters"

WholeHundredths(r) == \A c \in Range(amount_cols) : r[c] % 10 = 0

\* C1 as stated: in every derived record, whatever its nine amounts,
\* total submitted - total paid - total denied = total pending.
C1_PendingIdentity ==
    Derived =>
        \A i \in DOMAIN df.rows :
            LET r == df.rows[i]
            IN  r["Total Submitted Amount"] - r["Total Paid Amount"]
                    - r["Total Denied Amount"] = r["Total Pending Amount"]

\* C1 amended: in every derived record whose nine amounts are whole
\* hundredths, total submitted - total paid - total denied = total pending
\* + resubmitted amount 1 + resubmitted amount 2, so the identity of C1
\* holds of such a record exactly when its two resubmitted amounts sum to 0.
C1_PendingIdentityUpToResubmitted ==
    Derived =>
        \A i \in DOMAIN df.rows :
            LET r == df.rows[i]
                residue == r["Total Submitted Amount"] - r["Total Paid Amount"]
                             - r["Total Denied Amount"] - r["Total Pending Amount"]
            IN  WholeHundredths(r) =>
                    /\ residue = r["Resubmitted_Amount_1"] + r["Resubmitted_Amount2"]
                    /\ r["Total Pending Amount"] =
                          r["Submitted_Amount"] - r["Total Paid Amount"]
                            - r["Total Denied Amount"]

C1_Witness ==
    /\ Derived
    /\ \E i \in DOMAIN df.rows :
          /\ WholeHundredths(df.rows[i])
          /\ df.rows[i]["Resubmitted_Amount_1"] > 0
          /\ df.rows[i]["Resubmitted_Amount2"] > 0
          /\ df.rows[i]["Total Paid Amount"] > 0
          /\ df.rows[i]["Total Pending Amount"] # 0

Ended == pc \in {"done", "error", "stopped"}

\* The uploaded header carries the column under this name, blanks around
\* it aside.
CarriesTrimmed(name) ==
    \E label \in uploaded_file.columns :
        /\ name \in Range(label)
        /\ \A j \in DOMAIN label : label[j] \in {" ", name}

\* C2 as stated: a file that carries the three required columns and the
\* other amount columns, blanks around the names aside, is not rejected as
\* missing required columns.
C2_TrimmedNamesPassValidation ==
    (\A c \in Range(required_cols) \cup Range(amount_cols) : CarriesTrimmed(c))
        => pc # "stopped"

\* C3 as stated: in every terminal state of a run the export file does not
\* exist on disk.
C3_ExportFileDeletedAtEnd == Ended => ~output_file.exists

OutputKinds == {"dataframe", "plotly_chart", "download_button"}

KindsOf(elements) == {elements[i].kind : i \in DOMAIN elements}

ErrorsOf(elements) == {i \in DOMAIN elements : elements[i].kind = "error"}

\* C4 as stated: a run that ended in the error state shows no aggregate
\* table, chart or download.
C4_NoPartialOutput == pc = "error" => KindsOf(shown) \cap OutputKinds = {}

\* C4 amended: a failure ends the run with exactly one error message, which
\* carries the failure text and is the last element of the page; what was
\* shown before the failure stays.  After a failure at a step before the
\* tables are displayed (loading, validation, cleaning, derivation, filters,
\* aggregation) the page holds no table, chart or download; after a failure
\* at chart rendering or export the two tables are on the page above the
\* error message.
C4_ErrorAfterWhatWasShown ==
    [][pc' = "error" =>
          /\ Len(shown') > Len(shown)
          /\ SubSeq(shown', 1, Len(shown)) = shown
          /\ ErrorsOf(shown') = {Len(shown')}
          /\ shown'[Len(shown')].text
                \in {"ParserError", "KeyError: amount columns not in index",
                     "KeyError: Remittance_Date", "KeyError: Payer_Name",
                     "ValueError: chart", "PermissionError", "ValueError: to_excel",
                     "StreamlitAPIException"}
          /\ pc \in {"load", "validate", "clean", "derive", "filters", "aggregate", "tables"}
                => KindsOf(shown') \cap OutputKinds = {}
          /\ pc \in {"charts", "export", "download"}
                => /\ Table("grouped_paid") \in Range(shown')
                   /\ Table("summary_table") \in Range(shown')]_vars

C4_Witness ==
    /\ pc = "error"
    /\ Table("summary_table") \in Range(shown)
    /\ Chart("Yearly Paid Amount by Quarter") \in Range(shown)
    /\ shown[Len(shown)] = ErrorMessage("ValueError: chart")

AbsentRequired ==
    SelectSeq(required_cols, LAMBDA c : Exact(c) \notin uploaded_file.columns)

\* C5: when a required column is absent from the file, the run goes no
\* further than validation: it reports the absent columns by name and
\* stops; nothing is coerced, derived, filtered, aggregated or shown, and
\* the export file is never created.
C5_MissingColumnsHalt ==
    AbsentRequired # <<>> =>
        /\ pc \in {"load", "validate", "stopped", "error"}
        /\ pc = "stopped" =>
              /\ missing_cols = AbsentRequired
              /\ shown = <<MissingMessage(AbsentRequired)>>
        /\ pc = "error" => shown = <<ErrorMessage("ParserError")>>
        /\ df \in {NoFrame, ReadFile(uploaded_file)}
        /\ filtered_df = NoFrame
        /\ grouped_paid = NoTable
        /\ summary_table = NoTable
        /\ ~output_file.exists

C5_Witness ==
    /\ pc = "stopped"
    /\ missing_cols = <<"Remittance_Date", "Paid_Amount">>
    /\ Len(df.rows) = MaxRows

FiltersApplied == filtered_df # NoFrame

\* C6: a selection with "ALL" resolves to every distinct value of the
\* cleaned data, whatever else is selected with it; a selection without
\* "ALL" resolves to itself; the filtered records are exactly the cleaned
\* records whose year and payer are in the two resolved sets.
C6_FilterResolution ==
    FiltersApplied =>
        LET years == IF AllYears \in selected_year
                     THEN {df.rows[i]["Remittance_Date"].y : i \in DOMAIN df.rows}
                     ELSE {o.y : o \in selected_year}
            payers == IF "ALL" \in selected_insurance
                      THEN {df.rows[i]["Payer_Name"] : i \in DOMAIN df.rows}
                      ELSE selected_insurance
        IN  /\ filtered_df.rows =
                  SelectSeq(df.rows, LAMBDA r : /\ r["Remittance_Date"].y \in years
                                                 /\ r["Payer_Name"] \in payers)
            /\ (AllYears \in selected_year /\ "ALL" \in selected_insurance)
                  => filtered_df.rows = df.rows

C6_Witness ==
    /\ FiltersApplied
    /\ AllYears \in selected_year
    /\ Cardinality(selected_year) = 2
    /\ Cardinality(UniqueYears(df.rows)) = 2
    /\ selected_insurance = {"Zenith"}
    /\ Len(filtered_df.rows) = 1
    /\ Len(df.rows) = 2

Cleaned ==
    \/ pc \in {"derive", "filters", "aggregate", "tables", "charts", "export",
               "download", "cleanup", "done"}
    \/ pc = "error" /\ FiltersApplied

Aggregated == grouped_paid # NoTable

\* The index values of the raw rows whose date cell spells no date.
UnparseableIndex ==
    {i - 1 : i \in {j \in DOMAIN uploaded_file.rows :
                      LET d == uploaded_file.rows[j]["Remittance_Date"]
                      IN  ~(d.m \in 1..12 /\ d.d \in 1..DaysIn(d.y, d.m))}}

IndexOf(rows) == {rows[i]["index"] : i \in DOMAIN rows}

MonthCells(g) == [m \in DOMAIN month_order |-> g[month_order[m]]]

\* C7: after cleaning every record has a date; a row whose date cell spells
\* no date is in neither the working set, the filtered set nor the exported
\* sheet, and the monthly matrix and the summary hold only the paid amounts
\* of the filtered records, each of which has a date.
C7_UnparseableDatesExcluded ==
    Cleaned =>
        /\ \A i \in DOMAIN df.rows : df.rows[i]["Remittance_Date"].valid
        /\ IndexOf(df.rows) = {i - 1 : i \in DOMAIN uploaded_file.rows} \ UnparseableIndex
        /\ IndexOf(filtered_df.rows) \cap UnparseableIndex = {}
        /\ \A k \in DOMAIN output_file.sheets :
              output_file.sheets[k].name = "All Claims Raw (Filtered)"
                 => IndexOf(output_file.sheets[k].rows) \cap UnparseableIndex = {}
        /\ Aggregated =>
              LET dated == SelectSeq(filtered_df.rows,
                                     LAMBDA r : r["index"] \notin UnparseableIndex)
                  paid == Total([i \in DOMAIN dated |-> dated[i]["Total Paid Amount"]])
              IN  /\ Total([i \in DOMAIN grouped_paid.rows |->
                              Total(MonthCells(grouped_paid.rows[i]))]) = paid
                  /\ Total([i \in DOMAIN summary_table.rows |->
                              summary_table.rows[i].Total_Paid]) = paid

C7_Witness ==
    /\ pc = "cleanup"
    /\ UnparseableIndex = {1}
    /\ Len(df.rows) = 1
    /\ Len(grouped_paid.rows) = 1
    /\ Len(output_file.sheets) = 3
    /\ IndexOf(output_file.sheets[3].rows) = {0}

PaidOf(rows, y, p, m) ==
    LET of == SelectSeq(rows, LAMBDA r : /\ r["Remittance_Date"].y = y
                                          /\ r["Payer_Name"] = p
                                          /\ r["Remittance_Date"].m = m)
    IN  Total([i \in DOMAIN of |-> of[i]["Total Paid Amount"]])

\* C8: of a non-empty filtered set the monthly matrix has, after the year
\* and the payer, exactly the twelve columns Jan .. Dec in this order; the
\* cell of a row's month is the sum of the total paid of that year's and
\* payer's records of that month, 0 when there is none.
C8_TwelveMonthColumns ==
    (Aggregated /\ filtered_df.rows # <<>>) =>
        /\ grouped_paid.columns = <<"Remittance_Year", "Payer_Name">> \o month_order
        /\ Len(month_order) = 12
        /\ grouped_paid.rows # <<>>
        /\ \A i \in DOMAIN grouped_paid.rows :
              LET g == grouped_paid.rows[i]
              IN  /\ DOMAIN g = Range(grouped_paid.columns)
                  /\ \A m \in 1..12 :
                        g[month_order[m]] =
                            PaidOf(filtered_df.rows, g["Remittance_Year"], g["Payer_Name"], m)

C8_Witness ==
    /\ Aggregated
    /\ Len(filtered_df.rows) = 2
    /\ \E i \in DOMAIN grouped_paid.rows :
          /\ grouped_paid.rows[i]["Jan"] > 0
          /\ grouped_paid.rows[i]["Feb"] = 0
          /\ grouped_paid.rows[i]["Mar"] > 0
          /\ grouped_paid.rows[i]["Jan"] # grouped_paid.rows[i]["Mar"]

\* C9: an empty filtered set is no error: both tables have their usual
\* columns and no row, the page shows the warning and no chart, and the run
\* goes on into the export; it reaches the error state only by a failure of
\* the export itself.
C9_EmptySelectionIsNoError ==
    (Aggregated /\ filtered_df.rows = <<>>) =>
        /\ grouped_paid.rows = <<>>
        /\ grouped_paid.columns = <<"Remittance_Year", "Payer_Name">> \o month_order
        /\ summary_table.rows = <<>>
        /\ summary_table.columns = <<"Remittance_Year", "Payer_Name", "Total_Submitted",
                                     "Total_Paid", "Total_Denied", "Total_Pending">>
        /\ pc \in {"tables", "charts", "export", "download", "cleanup", "done", "error"}
        /\ pc \in {"export", "download", "cleanup", "done", "error"} =>
              /\ NoDataWarning \in Range(shown)
              /\ "plotly_chart" \notin KindsOf(shown)
        /\ pc = "error" =>
              shown[Len(shown)].text
                  \in {"PermissionError", "ValueError: to_excel", "StreamlitAPIException"}
        /\ pc = "done" => DownloadButton \in Range(shown)

C9_Witness ==
    /\ pc = "done"
    /\ df.rows # <<>>
    /\ selected_year = {}
    /\ "ALL" \notin selected_insurance
    /\ filtered_df.rows = <<>>
    /\ NoDataWarning \in Range(shown)

KeysOf(rows) == {<<rows[i]["Remittance_Year"], rows[i]["Payer_Name"]>> : i \in DOMAIN rows}

\* C10: the summary table and the monthly matrix have the same (year,
\* payer) rows, one row for a key; a summary row's Total_Paid is the sum of
\* the twelve month cells of the matrix row; every filtered record is
\* counted in exactly one summary row and one matrix row, and the paid
\* amounts of the filtered records add up to the total of either table.
C10_PaidAmountConserved ==
    Aggregated =>
        /\ KeysOf(summary_table.rows) = KeysOf(grouped_paid.rows)
        /\ KeysOf(summary_table.rows) = KeysOf(filtered_df.rows)
        /\ Cardinality(KeysOf(summary_table.rows)) = Len(summary_table.rows)
        /\ Cardinality(KeysOf(grouped_paid.rows)) = Len(grouped_paid.rows)
        /\ \A i \in DOMAIN summary_table.rows : \A j \in DOMAIN grouped_paid.rows :
              KeysOf(<<summary_table.rows[i]>>) = KeysOf(<<grouped_paid.rows[j]>>)
                 => summary_table.rows[i].Total_Paid = Total(MonthCells(grouped_paid.rows[j]))
        /\ Total([i \in DOMAIN summary_table.rows |-> summary_table.rows[i].Total_Paid])
              = Total([i \in DOMAIN filtered_df.rows |->
                          filtered_df.rows[i]["Total Paid Amount"]])

C10_Witness ==
    /\ Aggregated
    /\ Len(summary_table.rows) = 2
    /\ Len(filtered_df.rows) = 2
    /\ summary_table.rows[1].Total_Paid # summary_table.rows[2].Total_Paid
    /\ summary_table.rows[1].Total_Paid # summary_table.rows[1].Total_Submitted

====
